---------------------------- MODULE Spec2Model ----------------------------
(***************************************************************************)
(* A model of lis.py, a small Lisp interpreter: the tokenizer, the atom    *)
(* classifier, the reader (expr_from_tokens / parse), the printer          *)
(* (to_string), the environment chain (Env) and the evaluator (eval_expr). *)
(*                                                                         *)
(* Text is a sequence of one-character strings.  A Python value is a       *)
(* record tagged by t:                                                     *)
(*   [t |-> "int", n]      an int                                          *)
(*   [t |-> "float", neg, whole, frac]  a float, as its decimal expansion  *)
(*   [t |-> "sym", s]      a str (Symbol), s its characters                *)
(*   [t |-> "list", items] a list                                          *)
(*   [t |-> "proc", args, body, env]  the closure made by a lambda form    *)
(*   [t |-> "builtin", fn] a callable of get_builtins                      *)
(*   [t |-> "bool", b]     True / False                                    *)
(*   [t |-> "none"]        None                                            *)
(***************************************************************************)
EXTENDS Integers, Sequences, FiniteSets, TLC

VARIABLES
    text,       \* the source string handed to parse
    tokens,     \* the mutable token list expr_from_tokens pops from
    out,        \* the expressions parse has yielded so far
    pc,         \* where the reader pipeline is
    rd,         \* the last call of expr_from_tokens: tokens before, result
    rendered,   \* to_string of the expression read
    retok,      \* tokenize of rendered
    heap,       \* the Env objects: <<[vars, outer]>>, index 1 is global_env
    handles,    \* the Env objects the caller holds: global_env, and those it built
    last        \* the last call of eval_expr: expr, env, heap before and after, result

vars == <<text, tokens, out, pc, rd, rendered, retok, heap, handles, last>>

readerVars == <<text, tokens, out, pc, rd, rendered, retok>>
evalVars == <<heap, handles, last>>

-----------------------------------------------------------------------------
(* Bounds *)

MaxText == 5

Alphabet == {"(", ")", " ", "0", "1", ".", "-", "a"}

Texts == UNION {[1..n -> Alphabet] : n \in 0..MaxText}

-----------------------------------------------------------------------------
(* Values *)

None == [t |-> "none"]
IntV(n) == [t |-> "int", n |-> n]
SymV(s) == [t |-> "sym", s |-> s]
ListV(items) == [t |-> "list", items |-> items]
FloatV(neg, whole, frac) == [t |-> "float", neg |-> neg, whole |-> whole, frac |-> frac]

Digits == <<"0", "1", "2", "3", "4", "5", "6", "7", "8", "9">>

IsDigit(c) == \E d \in 1..10 : Digits[d] = c

DigitVal(c) == (CHOOSE d \in 1..10 : Digits[d] = c) - 1

-----------------------------------------------------------------------------
(* tokenize *)

RECURSIVE Replace(_, _, _)
Replace(s, c, r) ==
    IF s = <<>> THEN <<>>
    ELSE (IF Head(s) = c THEN r ELSE <<Head(s)>>) \o Replace(Tail(s), c, r)

RECURSIVE SplitFrom(_, _, _)
SplitFrom(s, cur, acc) ==
    IF s = <<>> THEN (IF cur = <<>> THEN acc ELSE Append(acc, cur))
    ELSE IF Head(s) = " "
         THEN SplitFrom(Tail(s), <<>>, IF cur = <<>> THEN acc ELSE Append(acc, cur))
         ELSE SplitFrom(Tail(s), Append(cur, Head(s)), acc)

Split(s) == SplitFrom(s, <<>>, <<>>)

tokenize(s) ==
    Split(Replace(Replace(s, "(", <<" ", "(", " ">>), ")", <<" ", ")", " ">>))

-----------------------------------------------------------------------------
(* atom *)

AllDigits(s) == \A i \in 1..Len(s) : IsDigit(s[i])

Unsigned(tok) == IF tok # <<>> /\ tok[1] = "-" THEN Tail(tok) ELSE tok

IsNeg(tok) == tok # <<>> /\ tok[1] = "-"

RECURSIVE DecValue(_)
DecValue(s) ==
    IF s = <<>> THEN 0
    ELSE 10 * DecValue(SubSeq(s, 1, Len(s) - 1)) + DigitVal(s[Len(s)])

\* int(token) succeeds: an optional sign and one or more digits
IsIntLit(tok) == Unsigned(tok) # <<>> /\ AllDigits(Unsigned(tok))

IntOf(tok) == IF IsNeg(tok) THEN 0 - DecValue(Unsigned(tok)) ELSE DecValue(Unsigned(tok))

DotAt(s) == CHOOSE i \in 1..Len(s) : s[i] = "."

HasExp(s) == \E i \in 1..Len(s) : s[i] \in {"e", "E"}

ExpAt(s) == CHOOSE i \in 1..Len(s) : s[i] \in {"e", "E"} /\ \A j \in 1..(i - 1) : s[j] \notin {"e", "E"}

Mantissa(u) == IF HasExp(u) THEN SubSeq(u, 1, ExpAt(u) - 1) ELSE u

Exponent(u) ==
    LET x == IF HasExp(u) THEN SubSeq(u, ExpAt(u) + 1, Len(u)) ELSE <<"0">>
    IN IF x # <<>> /\ x[1] = "+" THEN Tail(x) ELSE x

\* digits around at most one point, at least one digit
IsDecimal(m) ==
    \/ m # <<>> /\ AllDigits(m)
    \/ /\ \E i \in 1..Len(m) : m[i] = "."
       /\ LET w == SubSeq(m, 1, DotAt(m) - 1)
              f == SubSeq(m, DotAt(m) + 1, Len(m))
          IN AllDigits(w) /\ AllDigits(f) /\ Len(w) + Len(f) > 0

\* float(token) succeeds: an optional sign, a decimal and an optional
\* exponent
IsFloatLit(tok) ==
    LET u == Unsigned(tok) IN
    IsDecimal(Mantissa(u)) /\ IsIntLit(Exponent(u))

RECURSIVE StripTrailingZeros(_)
StripTrailingZeros(s) ==
    IF s # <<>> /\ s[Len(s)] = "0" THEN StripTrailingZeros(SubSeq(s, 1, Len(s) - 1))
    ELSE s

Zeros(n) == [i \in 1..n |-> "0"]

\* the number a float literal denotes: the digits of the decimal with the
\* point moved by the exponent
FloatOf(tok) ==
    LET u == Unsigned(tok)
        m == Mantissa(u)
        hasDot == \E i \in 1..Len(m) : m[i] = "."
        w == IF hasDot THEN SubSeq(m, 1, DotAt(m) - 1) ELSE m
        f == IF hasDot THEN SubSeq(m, DotAt(m) + 1, Len(m)) ELSE <<>>
        d == w \o f
        point == Len(w) + IntOf(Exponent(u))
    IN IF point <= 0
       THEN FloatV(IsNeg(tok), 0, StripTrailingZeros(Zeros(0 - point) \o d))
       ELSE IF point >= Len(d)
       THEN FloatV(IsNeg(tok), DecValue(d \o Zeros(point - Len(d))), <<>>)
       ELSE FloatV(IsNeg(tok), DecValue(SubSeq(d, 1, point)),
                   StripTrailingZeros(SubSeq(d, point + 1, Len(d))))

atom(token) ==
    IF IsIntLit(token) THEN IntV(IntOf(token))
    ELSE IF IsFloatLit(token) THEN FloatOf(token)
    ELSE SymV(token)

-----------------------------------------------------------------------------
(* expr_from_tokens *)

EofStart == "Unexpected EOF at start of expression"
EofMid == "Unexpected EOF mid expression"
CloseParen == "Unexpected \")\""

Raised(toks, e) == [expr |-> None, tokens |-> toks, err |-> e]
Returned(toks, x) == [expr |-> x, tokens |-> toks, err |-> ""]

\* what rd records of a call of expr_from_tokens
NoRead == [called |-> FALSE, pre |-> <<>>, post |-> <<>>, expr |-> None, err |-> ""]

ReadRecord(toks, r) ==
    [called |-> TRUE, pre |-> toks, post |-> r.tokens, expr |-> r.expr, err |-> r.err]

RECURSIVE expr_from_tokens(_)
RECURSIVE ReadItems(_, _)

\* ReadItems with the loop condition cut to "while tokens"
ReadItemsUntilEmpty(toks, acc) ==
    IF toks # <<>>
    THEN LET r == expr_from_tokens(toks) IN
         IF r.err # "" THEN [items |-> acc, tokens |-> r.tokens, err |-> r.err]
         ELSE ReadItems(r.tokens, Append(acc, r.expr))
    ELSE [items |-> acc, tokens |-> toks, err |-> ""]

\* the while loop of expr_from_tokens: tokens and tokens[0] != ')'
ReadItems(toks, acc) ==
    IF toks # <<>> /\ toks[1] # <<")">>
    THEN LET r == expr_from_tokens(toks) IN
         IF r.err # "" THEN [items |-> acc, tokens |-> r.tokens, err |-> r.err]
         ELSE ReadItems(r.tokens, Append(acc, r.expr))
    ELSE [items |-> acc, tokens |-> toks, err |-> ""]

\* expr_from_tokens without the pop that discards the final ')'
ExprFromTokensKeepingClose(toks) ==
    IF Len(toks) = 0 THEN Raised(toks, EofStart)
    ELSE LET token == Head(toks)
             rest == Tail(toks)
         IN IF token = <<"(">>
            THEN LET l == ReadItems(rest, <<>>) IN
                 IF l.err # "" THEN Raised(l.tokens, l.err)
                 ELSE IF Len(l.tokens) = 0 THEN Raised(l.tokens, EofMid)
                 ELSE Returned(l.tokens, ListV(l.items))
            ELSE IF token = <<")">> THEN Raised(rest, CloseParen)
            ELSE Returned(rest, atom(token))

expr_from_tokens(toks) ==
    IF Len(toks) = 0 THEN Raised(toks, EofStart)
    ELSE LET token == Head(toks)
             rest == Tail(toks)
         IN IF token = <<"(">>
            THEN LET l == ReadItems(rest, <<>>) IN
                 IF l.err # "" THEN Raised(l.tokens, l.err)
                 ELSE IF Len(l.tokens) = 0 THEN Raised(l.tokens, EofMid)
                 ELSE Returned(Tail(l.tokens), ListV(l.items))
            ELSE IF token = <<")">> THEN Raised(rest, CloseParen)
            ELSE Returned(rest, atom(token))

-----------------------------------------------------------------------------
(* to_string *)

RECURSIVE NatStr(_)
NatStr(n) == IF n < 10 THEN <<Digits[n + 1]>> ELSE NatStr(n \div 10) \o <<Digits[(n % 10) + 1]>>

IntStr(n) == IF n < 0 THEN <<"-">> \o NatStr(0 - n) ELSE NatStr(n)

RECURSIVE LeadingZeros(_)
LeadingZeros(s) == IF s # <<>> /\ s[1] = "0" THEN 1 + LeadingZeros(Tail(s)) ELSE 0

\* repr of a float: positional notation, or exponent notation below 1e-04
FloatStr(v) ==
    LET sign == IF v.neg THEN <<"-">> ELSE <<>>
        z == LeadingZeros(v.frac)
        m == SubSeq(v.frac, z + 1, Len(v.frac))
    IN IF v.whole = 0 /\ v.frac # <<>> /\ z >= 4
       THEN sign \o <<m[1]>> \o (IF Len(m) > 1 THEN <<".">> \o Tail(m) ELSE <<>>)
                 \o <<"e", "-">> \o (IF z + 1 < 10 THEN <<"0">> ELSE <<>>) \o NatStr(z + 1)
       ELSE sign \o NatStr(v.whole) \o <<".">> \o (IF v.frac = <<>> THEN <<"0">> ELSE v.frac)

\* str of an atom
Str(v) ==
    CASE v.t = "int" -> IntStr(v.n)
      [] v.t = "float" -> FloatStr(v)
      [] v.t = "sym" -> v.s
      [] v.t = "bool" -> IF v.b THEN <<"T", "r", "u", "e">> ELSE <<"F", "a", "l", "s", "e">>
      [] v.t = "none" -> <<"N", "o", "n", "e">>
      [] OTHER -> <<"<", "f", "u", "n", "c", "t", "i", "o", "n", ">">>

RECURSIVE JoinWithoutSpace(_)
\* Join with '' for the separator
JoinWithoutSpace(strs) ==
    IF strs = <<>> THEN <<>>
    ELSE strs[1] \o JoinWithoutSpace(Tail(strs))

RECURSIVE Join(_)
Join(strs) ==
    IF strs = <<>> THEN <<>>
    ELSE IF Len(strs) = 1 THEN strs[1]
    ELSE strs[1] \o <<" ">> \o Join(Tail(strs))

RECURSIVE to_string(_)
to_string(expr) ==
    IF expr.t = "list"
    THEN <<"(">> \o Join([i \in 1..Len(expr.items) |-> to_string(expr.items[i])]) \o <<")">>
    ELSE Str(expr)

-----------------------------------------------------------------------------
(* Env: a dict (vars) with a reference to the outer Env (0 is None)         *)

MaxFrames == 3

Sym(c) == SymV(<<c>>)
ProcV(args, body, env) == [t |-> "proc", args |-> args, body |-> body, env |-> env]
BuiltinV(fn) == [t |-> "builtin", fn |-> fn]
BoolV(b) == [t |-> "bool", b |-> b]

EmptyDict == [k \in {} |-> None]

Put(d, k, v) == [n \in (DOMAIN d) \cup {k} |-> IF n = k THEN v ELSE d[n]]

\* Env(values, outer)
Env(values, outer) == [vars |-> values, outer |-> outer]

\* Truthy with every list true, the empty one included
TruthyAnyList(v) ==
    CASE v.t = "int" -> v.n # 0
      [] v.t = "float" -> ~(v.whole = 0 /\ v.frac = <<>>)
      [] v.t = "sym" -> v.s # <<>>
      [] v.t = "bool" -> v.b
      [] v.t = "none" -> FALSE
      [] OTHER -> TRUE

\* bool(x) of a Python value
Truthy(v) ==
    CASE v.t = "int" -> v.n # 0
      [] v.t = "float" -> ~(v.whole = 0 /\ v.frac = <<>>)
      [] v.t = "sym" -> v.s # <<>>
      [] v.t = "list" -> v.items # <<>>
      [] v.t = "bool" -> v.b
      [] v.t = "none" -> FALSE
      [] OTHER -> TRUE

\* bool(self.outer): outer is an Env, a dict, and an empty dict is false
OuterIsTruthy(h, env) ==
    /\ h[env].outer # 0
    /\ DOMAIN h[h[env].outer].vars # {}

RECURSIVE find(_, _, _)
\* Env.find: the index of the Env found, 0 when NameError is raised
find(h, env, var) ==
    IF var \in DOMAIN h[env].vars THEN env
    ELSE IF OuterIsTruthy(h, env) THEN find(h, h[env].outer, var)
    ELSE 0

-----------------------------------------------------------------------------
(* get_builtins: the primitives the checked programs use                    *)

Plus == SymV(<<"+">>)
Not == SymV(<<"n", "o", "t">>)
List == SymV(<<"l", "i", "s", "t">>)

get_builtins ==
    Put(Put(Put(EmptyDict, Not, BuiltinV("not")), Plus, BuiltinV("+")), List, BuiltinV("list"))

global_env == Env(get_builtins, 0)

IsNum(v) == v.t \in {"int", "bool"}
NumOf(v) == IF v.t = "bool" THEN (IF v.b THEN 1 ELSE 0) ELSE v.n

\* op.add on ints (and bools), lists and strs; anything else is a TypeError
Add(a, b) ==
    IF IsNum(a) /\ IsNum(b) THEN [val |-> IntV(NumOf(a) + NumOf(b)), err |-> ""]
    ELSE IF a.t = "list" /\ b.t = "list" THEN [val |-> ListV(a.items \o b.items), err |-> ""]
    ELSE IF a.t = "sym" /\ b.t = "sym" THEN [val |-> SymV(a.s \o b.s), err |-> ""]
    ELSE [val |-> None, err |-> "TypeError"]

RECURSIVE Reduce(_, _)
\* reduce(op.add, args) from the accumulated value on
Reduce(acc, args) ==
    IF args = <<>> THEN [val |-> acc, err |-> ""]
    ELSE LET r == Add(acc, Head(args)) IN
         IF r.err # "" THEN r ELSE Reduce(r.val, Tail(args))

CallBuiltin(fn, args) ==
    CASE fn = "+" -> IF args = <<>> THEN [val |-> None, err |-> "TypeError"]
                     ELSE Reduce(Head(args), Tail(args))
      [] fn = "not" -> IF Len(args) # 1 THEN [val |-> None, err |-> "TypeError"]
                       ELSE [val |-> BoolV(~Truthy(args[1])), err |-> ""]
      [] fn = "list" -> [val |-> ListV(args), err |-> ""]

-----------------------------------------------------------------------------
(* eval_expr                                                                *)

KwQuote == SymV(<<"q", "u", "o", "t", "e">>)
KwIf == SymV(<<"i", "f">>)
KwSet == SymV(<<"s", "e", "t", "!">>)
KwDefine == SymV(<<"d", "e", "f", "i", "n", "e">>)
KwLambda == SymV(<<"l", "a", "m", "b", "d", "a">>)
KwBegin == SymV(<<"b", "e", "g", "i", "n">>)

\* the heap bound was reached: the evaluation is outside the model
Overflow == "Overflow"

Ok(v, h) == [val |-> v, heap |-> h, err |-> ""]
Raise(e, h) == [val |-> None, heap |-> h, err |-> e]

Min(a, b) == IF a < b THEN a ELSE b

\* ZipDict binding a str parameter, whole, to the list of all the arguments
ZipDictWholeName(args, params) ==
    IF args.t \notin {"sym", "list"} THEN [vars |-> EmptyDict, err |-> "TypeError"]
    ELSE IF args.t = "sym" THEN [vars |-> Put(EmptyDict, args, ListV(params)), err |-> ""]
    ELSE LET keys == args.items
             n == Min(Len(keys), Len(params))
         IN IF \E i \in 1..n : keys[i].t = "list"
            THEN [vars |-> EmptyDict, err |-> "TypeError"]
            ELSE [vars |-> [k \in {keys[i] : i \in 1..n} |->
                               params[CHOOSE i \in 1..n :
                                         /\ keys[i] = k
                                         /\ \A j \in (i + 1)..n : keys[j] # k]],
                  err |-> ""]

\* dict(zip(args, params)): args is the lambda's parameter expression, a list
\* or a str (zip then walks its characters); params are the call's arguments
ZipDict(args, params) ==
    IF args.t \notin {"sym", "list"} THEN [vars |-> EmptyDict, err |-> "TypeError"]
    ELSE LET keys == IF args.t = "sym" THEN [i \in 1..Len(args.s) |-> Sym(args.s[i])]
                     ELSE args.items
             n == Min(Len(keys), Len(params))
         IN IF \E i \in 1..n : keys[i].t = "list"
            THEN [vars |-> EmptyDict, err |-> "TypeError"]
            ELSE [vars |-> [k \in {keys[i] : i \in 1..n} |->
                               params[CHOOSE i \in 1..n :
                                         /\ keys[i] = k
                                         /\ \A j \in (i + 1)..n : keys[j] # k]],
                  err |-> ""]

RECURSIVE eval_expr(_, _, _)
RECURSIVE EvalEach(_, _, _, _)
RECURSIVE Call(_, _, _)

\* EvalEach undoing, when a sub-expression raises, what the earlier ones did
EvalEachRollingBack(exprs, env, h, acc) ==
    IF exprs = <<>> THEN [vals |-> acc, heap |-> h, err |-> ""]
    ELSE LET r == eval_expr(Head(exprs), env, h) IN
         IF r.err # "" THEN [vals |-> acc, heap |-> h, err |-> r.err]
         ELSE LET rest == EvalEach(Tail(exprs), env, r.heap, Append(acc, r.val)) IN
              IF rest.err # "" THEN [vals |-> acc, heap |-> h, err |-> rest.err]
              ELSE rest

\* the evaluation of a sequence of sub-expressions in order, up to the first
\* one that raises
EvalEach(exprs, env, h, acc) ==
    IF exprs = <<>> THEN [vals |-> acc, heap |-> h, err |-> ""]
    ELSE LET r == eval_expr(Head(exprs), env, h) IN
         IF r.err # "" THEN [vals |-> acc, heap |-> r.heap, err |-> r.err]
         ELSE EvalEach(Tail(exprs), env, r.heap, Append(acc, r.val))

\* proc(*values): the closure made by a lambda form, or a builtin
Call(proc, values, h) ==
    IF proc.t = "builtin"
    THEN LET b == CallBuiltin(proc.fn, values) IN
         IF b.err # "" THEN Raise(b.err, h) ELSE Ok(b.val, h)
    ELSE LET z == ZipDict(proc.args, values) IN
         IF z.err # "" THEN Raise(z.err, h)
         ELSE IF Len(h) >= MaxFrames THEN Raise(Overflow, h)
         ELSE eval_expr(proc.body, Len(h) + 1, Append(h, Env(z.vars, proc.env)))

EvalSymbol(expr, env, h) ==
    LET defining_env == find(h, env, expr) IN
    IF defining_env = 0 THEN Raise("NameError", h)
    ELSE IF DOMAIN h[defining_env].vars # {} THEN Ok(h[defining_env].vars[expr], h)
    ELSE Raise("NameError", h)

EvalQuote(expr, env, h) ==
    IF Len(expr.items) # 2 THEN Raise("ValueError", h)
    ELSE Ok(expr.items[2], h)

EvalIf(expr, env, h) ==
    IF Len(expr.items) # 4 THEN Raise("ValueError", h)
    ELSE LET p == eval_expr(expr.items[2], env, h) IN
         IF p.err # "" THEN p
         ELSE eval_expr(IF Truthy(p.val) THEN expr.items[3] ELSE expr.items[4], env, p.heap)

\* env.find(name)[name] = eval_expr(value, env): the value first, then find
EvalSet(expr, env, h) ==
    IF Len(expr.items) # 3 THEN Raise("ValueError", h)
    ELSE LET name == expr.items[2]
             v == eval_expr(expr.items[3], env, h)
         IN IF v.err # "" THEN v
            ELSE IF name.t = "list" THEN Raise("TypeError", v.heap)
            ELSE LET d == find(v.heap, env, name) IN
                 IF d = 0 THEN Raise("NameError", v.heap)
                 ELSE Ok(None, [v.heap EXCEPT ![d].vars = Put(@, name, v.val)])

\* EvalDefine writing, as set! does, to the frame find returns when there is one
EvalDefineInOwner(expr, env, h) ==
    IF Len(expr.items) # 3 THEN Raise("ValueError", h)
    ELSE LET name == expr.items[2]
             v == eval_expr(expr.items[3], env, h)
         IN IF v.err # "" THEN v
            ELSE IF name.t = "list" THEN Raise("TypeError", v.heap)
            ELSE LET d == find(v.heap, env, name) IN
                 Ok(None, [v.heap EXCEPT ![IF d = 0 THEN env ELSE d].vars = Put(@, name, v.val)])

\* env[name] = eval_expr(value, env)
EvalDefine(expr, env, h) ==
    IF Len(expr.items) # 3 THEN Raise("ValueError", h)
    ELSE LET name == expr.items[2]
             v == eval_expr(expr.items[3], env, h)
         IN IF v.err # "" THEN v
            ELSE IF name.t = "list" THEN Raise("TypeError", v.heap)
            ELSE Ok(None, [v.heap EXCEPT ![env].vars = Put(@, name, v.val)])

EvalLambda(expr, env, h) ==
    IF Len(expr.items) # 3 THEN Raise("ValueError", h)
    ELSE Ok(ProcV(expr.items[2], expr.items[3], env), h)

EvalBegin(expr, env, h) ==
    IF Len(expr.items) <= 1 THEN Raise("SyntaxError", h)
    ELSE LET r == EvalEach(Tail(expr.items), env, h, <<>>) IN
         IF r.err # "" THEN Raise(r.err, r.heap)
         ELSE Ok(r.vals[Len(r.vals)], r.heap)

EvalCall(expr, env, h) ==
    LET r == EvalEach(expr.items, env, h, <<>>) IN
    IF r.err # "" THEN Raise(r.err, r.heap)
    ELSE IF Head(r.vals).t \in {"proc", "builtin"}
         THEN Call(Head(r.vals), Tail(r.vals), r.heap)
         ELSE Raise("TypeError", r.heap)

eval_expr(expr, env, h) ==
    IF expr.t = "sym" THEN EvalSymbol(expr, env, h)
    ELSE IF expr.t # "list" THEN Ok(expr, h)
    ELSE IF expr.items = <<>> THEN Raise("IndexError", h)
    ELSE IF expr.items[1] = KwQuote THEN EvalQuote(expr, env, h)
    ELSE IF expr.items[1] = KwIf THEN EvalIf(expr, env, h)
    ELSE IF expr.items[1] = KwSet THEN EvalSet(expr, env, h)
    ELSE IF expr.items[1] = KwDefine THEN EvalDefine(expr, env, h)
    ELSE IF expr.items[1] = KwLambda THEN EvalLambda(expr, env, h)
    ELSE IF expr.items[1] = KwBegin THEN EvalBegin(expr, env, h)
    ELSE EvalCall(expr, env, h)

-----------------------------------------------------------------------------
(* The interpreter as a library: Env(values, outer) builds a frame, and     *)
(* eval_expr(expr, env) evaluates one top-level expression in a frame       *)

InitHeap == <<global_env>>

NoEval ==
    [called |-> FALSE, expr |-> None, env |-> 0, pre |-> <<>>, post |-> <<>>, val |-> None,
     err |-> ""]

X == Sym("x")
Y == Sym("y")
F == Sym("f")
U == Sym("u")
XY == SymV(<<"x", "y">>)

Form(items) == ListV(items)
SetForm(n, v) == Form(<<KwSet, n, v>>)
DefineForm(n, v) == Form(<<KwDefine, n, v>>)
LambdaForm(a, b) == Form(<<KwLambda, a, b>>)
QuoteForm(v) == Form(<<KwQuote, v>>)
IfForm(p, c, a) == Form(<<KwIf, p, c, a>>)
\* ((lambda () body)): a call of a procedure with no parameters
Thunk(body) == Form(<<LambdaForm(Form(<<>>), body)>>)

RECURSIVE Refs(_)
\* the Env objects a value refers to: a closure's env, through lists
Refs(v) ==
    IF v.t = "proc" THEN {v.env}
    ELSE IF v.t = "list" THEN UNION {Refs(v.items[i]) : i \in 1..Len(v.items)}
    ELSE {}

RECURSIVE Reachable(_, _)
\* the Env objects reachable from those of R, by outer and by bound closures
Reachable(h, R) ==
    LET R2 == R \cup ({h[i].outer : i \in R} \ {0})
                \cup UNION {UNION {Refs(h[i].vars[k]) : k \in DOMAIN h[i].vars} : i \in R}
    IN IF R2 = R THEN R ELSE Reachable(h, R2)

Max(S) == CHOOSE m \in S : \A n \in S : n <= m

\* the call frames at the end of the heap that nothing refers to any more
\* (the caller holds its Envs and the value returned) are freed
Collect(h, held, val) == SubSeq(h, 1, Max(Reachable(h, held \cup Refs(val))))

\* the dicts a frame is constructed from
FrameValues ==
    {EmptyDict, Put(EmptyDict, X, IntV(0)), Put(EmptyDict, Y, IntV(0))}

\* Env(values, outer) for a dict of the set V, outer an Env the caller holds
\* or None, while the heap holds fewer than bound frames
Construct(V, bound) ==
    LET h == Collect(heap, handles, None) IN
    /\ Len(h) < bound
    /\ \E values \in V, outer \in handles \cup {0} :
          heap' = Append(h, Env(values, outer))
    /\ handles' = handles \cup {Len(h) + 1}
    /\ last' = NoEval
    /\ UNCHANGED readerVars

NewEnv == Construct(FrameValues, MaxFrames)

MaxBlankFrames == 3

\* Env({}, outer)
NewBlankEnv == Construct({EmptyDict}, MaxBlankFrames)

\* eval_expr(expr, env) for an expression of the set P
Evaluate(P) ==
    /\ \E expr \in P, env \in handles :
          LET r == eval_expr(expr, env, heap) IN
          /\ r.err # Overflow
          /\ heap' = Collect(r.heap, handles, r.val)
          /\ handles' = handles
          /\ last' = [called |-> TRUE, expr |-> expr, env |-> env, pre |-> heap,
                      post |-> r.heap, val |-> r.val, err |-> r.err]
    /\ UNCHANGED readerVars

\* variable references, in the frame or through calls of procedures with no
\* parameters; set! and define of a constant
FramePrograms ==
    {X, Thunk(X), Thunk(Thunk(X)), SetForm(X, IntV(1)), DefineForm(X, IntV(1))}

EvalFrameForm == Evaluate(FramePrograms)

MaxArgs == 2

ArgValues == {IntV(1), IntV(2)}

ArgLists == UNION {[1..n -> ArgValues] : n \in 0..MaxArgs}

XX == SymV(<<"x", "x">>)

\* ((lambda name x) a1 ... an): a call of a procedure whose parameter
\* expression is a Symbol, not a list
SymbolParamCall(name, args) == Form(<<LambdaForm(name, X)>> \o args)

SymbolParamPrograms == {SymbolParamCall(name, args) : name \in {X, XY, XX}, args \in ArgLists}

\* (lambda (y) x): x is free in the body
FreeXProc == LambdaForm(Form(<<Y>>), X)

\* closures with a free variable, made in a frame or in the call frame of a
\* procedure with no parameters; their calls; define and set! of the variable
ClosurePrograms ==
    {DefineForm(F, FreeXProc), DefineForm(F, Thunk(FreeXProc)), Form(<<F, IntV(0)>>),
     DefineForm(X, IntV(1)), SetForm(X, IntV(2))}

EvalSymbolParamCall == Evaluate(SymbolParamPrograms)

EvalClosureForm == Evaluate(ClosurePrograms)

\* the predicates of the if forms: numbers, quoted symbols and lists, False
\* and True (not), None (define), a builtin and a procedure
Predicates ==
    {IntV(0), IntV(1), FloatV(FALSE, 0, <<>>), FloatV(FALSE, 0, <<"1">>),
     QuoteForm(ListV(<<>>)), QuoteForm(ListV(<<IntV(0)>>)), QuoteForm(X),
     Form(<<Not, IntV(1)>>), Form(<<Not, IntV(0)>>), DefineForm(X, IntV(1)),
     List, LambdaForm(Form(<<>>), IntV(0))}

\* one branch is a constant, the other refers to a variable that is never bound
IfPrograms ==
    {IfForm(p, IntV(1), U) : p \in Predicates}
    \cup {IfForm(p, U, IntV(2)) : p \in Predicates}

\* sub-expressions that raise in every frame: u is never bound, 0 is no callable
Failing == {U, Form(<<IntV(0), IntV(0)>>)}

\* expressions that fail after their sub-expression (define x 1) has completed
FailsAfterDefine ==
    {Form(<<KwBegin, DefineForm(X, IntV(1)), b, DefineForm(Y, IntV(1))>>) : b \in Failing}
    \cup {Form(<<List, DefineForm(X, IntV(1)), b>>) : b \in Failing}
    \cup {Form(<<Plus, DefineForm(X, IntV(1)), IntV(1)>>)}

\* expressions that fail before any define or set! has completed
FailsAtOnce ==
    {Form(<<KwBegin, b, DefineForm(X, IntV(1))>>) : b \in Failing}
    \cup {DefineForm(X, b) : b \in Failing}
    \cup {SetForm(X, b) : b \in Failing}
    \cup {Form(<<KwBegin>>)}

FailingPrograms == FailsAfterDefine \cup FailsAtOnce

EvalIfForm == Evaluate(IfPrograms)

EvalFailingForm == Evaluate(FailingPrograms)

Init ==
    /\ text = <<>>
    /\ tokens = <<>>
    /\ out = <<>>
    /\ pc = "eval"
    /\ rd = NoRead
    /\ rendered = <<>>
    /\ retok = <<>>
    /\ heap = InitHeap
    /\ handles = {1}
    /\ last = NoEval

Next ==
    \/ NewEnv
    \/ EvalFrameForm

Spec == Init /\ [][Next]_vars

NextParams ==
    \/ NewBlankEnv
    \/ EvalSymbolParamCall

SpecParams == Init /\ [][NextParams]_vars

NextClosure ==
    \/ NewEnv
    \/ EvalClosureForm

SpecClosure == Init /\ [][NextClosure]_vars

NextIf ==
    \/ NewBlankEnv
    \/ EvalIfForm

SpecIf == Init /\ [][NextIf]_vars

NextFail ==
    \/ NewBlankEnv
    \/ EvalFailingForm

SpecFail == Init /\ [][NextFail]_vars

-----------------------------------------------------------------------------
(* The reader pipeline: tokenize, then parse's loop over expr_from_tokens   *)
(* (or one direct call of expr_from_tokens), then to_string and tokenize    *)
(* again                                                                    *)

\* tokens = tokenize(s), the first line of parse
Tokenize ==
    /\ pc = "start"
    /\ tokens' = tokenize(text)
    /\ pc' = "parse"
    /\ UNCHANGED <<text, out, rd, rendered, retok, heap, handles, last>>

\* one iteration of parse's loop: while tokens: yield expr_from_tokens(tokens)
ParseNext ==
    /\ pc = "parse"
    /\ tokens # <<>>
    /\ LET r == expr_from_tokens(tokens) IN
       /\ tokens' = r.tokens
       /\ rd' = ReadRecord(tokens, r)
       /\ out' = IF r.err = "" THEN Append(out, r.expr) ELSE out
       /\ pc' = IF r.err = "" THEN "parse" ELSE "raised"
    /\ UNCHANGED <<text, rendered, retok, heap, handles, last>>

\* parse's loop ends: the token list is empty
ParseEnd ==
    /\ pc = "parse"
    /\ tokens = <<>>
    /\ pc' = "parsed"
    /\ UNCHANGED <<text, tokens, out, rd, rendered, retok, heap, handles, last>>

\* a direct call of expr_from_tokens on the token list, empty or not
ReadOne ==
    /\ pc = "parse"
    /\ out = <<>>
    /\ LET r == expr_from_tokens(tokens) IN
       /\ tokens' = r.tokens
       /\ rd' = ReadRecord(tokens, r)
       /\ out' = IF r.err = "" THEN <<r.expr>> ELSE out
       /\ pc' = IF r.err = "" THEN "read" ELSE "raised"
    /\ UNCHANGED <<text, rendered, retok, heap, handles, last>>

\* to_string of the last expression parse yielded
Render ==
    /\ pc = "parsed"
    /\ out # <<>>
    /\ rendered' = to_string(out[Len(out)])
    /\ pc' = "rendered"
    /\ UNCHANGED <<text, tokens, out, rd, retok, heap, handles, last>>

\* tokenize of the rendered text
Retokenize ==
    /\ pc = "rendered"
    /\ retok' = tokenize(rendered)
    /\ pc' = "retokenized"
    /\ UNCHANGED <<text, tokens, out, rd, rendered, heap, handles, last>>

InitParse ==
    /\ text \in Texts
    /\ tokens = <<>>
    /\ out = <<>>
    /\ pc = "start"
    /\ rd = NoRead
    /\ rendered = <<>>
    /\ retok = <<>>
    /\ heap = InitHeap
    /\ handles = {1}
    /\ last = NoEval

NextParse ==
    \/ Tokenize
    \/ ParseNext
    \/ ParseEnd
    \/ ReadOne
    \/ Render
    \/ Retokenize

SpecParse == InitParse /\ [][NextParse]_vars

-----------------------------------------------------------------------------
(* What the reader is expected to do, stated on the token list alone        *)

IsOpen(tok) == tok = <<"(">>
IsClose(tok) == tok = <<")">>

\* nesting depth after the first i tokens
Depth(toks, i) ==
    Cardinality({j \in 1..i : IsOpen(toks[j])}) - Cardinality({j \in 1..i : IsClose(toks[j])})

\* the token list starts with '(' and some later ')' closes it
HasMatch(toks) == \E i \in 1..Len(toks) : Depth(toks, i) = 0

\* the token list starts with a complete expression
StartsComplete(toks) ==
    /\ toks # <<>>
    /\ ~IsClose(toks[1])
    /\ IsOpen(toks[1]) => HasMatch(toks)

\* the number of tokens of that first expression
FirstLen(toks) ==
    IF IsOpen(toks[1]) THEN CHOOSE i \in 1..Len(toks) :
                                /\ Depth(toks, i) = 0
                                /\ \A j \in 1..(i - 1) : Depth(toks, j) # 0
    ELSE 1

OpenMark == [t |-> "open"]
CloseMark == [t |-> "close"]

\* a token list with every atom token classified
Classify(toks) ==
    [i \in 1..Len(toks) |-> IF IsOpen(toks[i]) THEN OpenMark
                            ELSE IF IsClose(toks[i]) THEN CloseMark
                            ELSE atom(toks[i])]

RECURSIVE Flatten(_)
RECURSIVE FlattenAll(_)
\* an expression tree written out as marks and atoms, in order
Flatten(expr) ==
    IF expr.t = "list" THEN <<OpenMark>> \o FlattenAll(expr.items) \o <<CloseMark>>
    ELSE <<expr>>
FlattenAll(exprs) ==
    IF exprs = <<>> THEN <<>> ELSE Flatten(Head(exprs)) \o FlattenAll(Tail(exprs))

\* C8: when the token list starts with a complete expression, expr_from_tokens
\* returns that expression without error and removes exactly its tokens, the
\* rest staying as they were and in order; and parse yields the top-level
\* expressions of the text one after the other in source order.
C8_ReadsFirstExpressionOnly ==
    /\ (rd.called /\ StartsComplete(rd.pre)) =>
          /\ rd.err = ""
          /\ rd.post = SubSeq(rd.pre, FirstLen(rd.pre) + 1, Len(rd.pre))
          /\ Flatten(rd.expr) = Classify(SubSeq(rd.pre, 1, FirstLen(rd.pre)))
    /\ pc \in {"parse", "parsed"} =>
          FlattenAll(out) \o Classify(tokens) = Classify(tokenize(text))

\* a list was read off the front and tokens of a second expression remain
C8_Witness ==
    /\ rd.called
    /\ StartsComplete(rd.pre)
    /\ rd.expr.t = "list"
    /\ rd.expr.items # <<>>
    /\ rd.post # <<>>
    /\ Len(out) = 1

\* C9: expr_from_tokens fails in exactly three cases: the empty token list
\* (EOF at start), a first token '(' that no later ')' closes (EOF mid
\* expression, at any depth), and a first token ')' (unexpected close paren);
\* on every other token list it returns an expression.
C9_ExactlyThreeErrors ==
    rd.called =>
        /\ rd.err \in {"", EofStart, EofMid, CloseParen}
        /\ rd.err = EofStart <=> rd.pre = <<>>
        /\ rd.err = CloseParen <=> (rd.pre # <<>> /\ IsClose(rd.pre[1]))
        /\ rd.err = EofMid <=> (rd.pre # <<>> /\ IsOpen(rd.pre[1]) /\ ~HasMatch(rd.pre))
        /\ rd.err = "" => rd.expr # None

\* the tokens ran out inside a nested list
C9_Witness ==
    /\ rd.called
    /\ rd.err = EofMid
    /\ Len(rd.pre) >= 3
    /\ IsOpen(rd.pre[2])
    /\ Depth(rd.pre, Len(rd.pre)) >= 1

\* the text is one syntactically valid expression and went round the loop
RoundTripped == pc = "retokenized" /\ Len(out) = 1

\* C10 as stated: for every text that is one valid expression,
\* tokenize(to_string(expr_from_tokens(tokenize(s)))) = tokenize(s).
C10_RoundTripAnySpelling == RoundTripped => retok = tokenize(text)

\* the spelling str gives a number: no redundant sign, leading or trailing zero
CanonicalInt(tok) ==
    LET u == Unsigned(tok) IN
    /\ u # <<>> /\ AllDigits(u)
    /\ Len(u) > 1 => u[1] # "0"
    /\ IsNeg(tok) => u # <<"0">>

CanonicalFloat(tok) ==
    LET u == Unsigned(tok) IN
    /\ \E i \in 1..Len(u) : u[i] = "."
    /\ LET w == SubSeq(u, 1, DotAt(u) - 1)
           f == SubSeq(u, DotAt(u) + 1, Len(u))
       IN /\ w # <<>> /\ AllDigits(w) /\ (Len(w) > 1 => w[1] # "0")
          /\ f # <<>> /\ AllDigits(f) /\ (Len(f) > 1 => f[Len(f)] # "0")
          /\ ~(w = <<"0">> /\ Len(f) > 4 /\ SubSeq(f, 1, 4) = <<"0", "0", "0", "0">>)

IsNumeric(tok) == IsIntLit(tok) \/ IsFloatLit(tok)

Canonical(tok) == IsNumeric(tok) => (CanonicalInt(tok) \/ CanonicalFloat(tok))

\* C10 amended: the round trip reproduces the parentheses and the symbol
\* tokens exactly and each numeric token as a spelling of the same number,
\* which is the token itself when the token is canonically spelled; the
\* token sequence is that of s when every numeric token of s is.
C10_RoundTripCanonical ==
    RoundTripped =>
        LET toks == tokenize(text) IN
        /\ Len(retok) = Len(toks)
        /\ \A i \in 1..Len(toks) :
              /\ Canonical(toks[i]) => retok[i] = toks[i]
              /\ IsNumeric(toks[i]) => (IsNumeric(retok[i]) /\ atom(retok[i]) = atom(toks[i]))

\* a list of two canonically spelled atoms, one of them a number, went round
C10_Witness ==
    /\ RoundTripped
    /\ out[1].t = "list"
    /\ Len(out[1].items) = 2
    /\ \E i \in 1..2 : out[1].items[i].t \in {"int", "float"}
    /\ \A i \in 1..Len(tokenize(text)) : Canonical(tokenize(text)[i])

-----------------------------------------------------------------------------
(* What the environment chain is expected to do, stated on the frames       *)

RECURSIVE Nearest(_, _, _)
\* the nearest frame, from env outward, that binds name; 0 when none does
Nearest(h, env, name) ==
    IF name \in DOMAIN h[env].vars THEN env
    ELSE IF h[env].outer = 0 THEN 0
    ELSE Nearest(h, h[env].outer, name)

\* a frame of the chain of env holds no binding
RECURSIVE ChainHasEmptyFrame(_, _)
ChainHasEmptyFrame(h, env) ==
    \/ DOMAIN h[env].vars = {}
    \/ h[env].outer # 0 /\ ChainHasEmptyFrame(h, h[env].outer)

IsForm(expr, kw, n) ==
    expr.t = "list" /\ Len(expr.items) = n /\ expr.items[1] = kw

\* the expression is a reference to a variable, directly or as the body of
\* calls of procedures with no parameters
RefersTo(expr, name) == expr \in {name, Thunk(name), Thunk(Thunk(name))}

\* the frames of h with the binding of name in frame i set to v
Bound(h, i, name, v) == [h EXCEPT ![i].vars = Put(@, name, v)]

\* C1: a lookup yields the binding of the nearest frame of the chain that
\* contains the name, and fails with NameError only when no frame of the
\* chain contains it, whatever the other frames hold (empty frames included).
C1_LookupFindsNearestBinding ==
    (last.called /\ RefersTo(last.expr, X)) =>
        LET o == Nearest(last.pre, last.env, X) IN
        IF o = 0 THEN last.err = "NameError"
        ELSE last.err = "" /\ last.val = last.pre[o].vars[X]

\* C2: (set! name value) in a chain that contains name overwrites the binding
\* in the nearest frame that contains it and leaves every other frame as it
\* was.
C2_SetOverwritesOwningFrame ==
    (last.called /\ IsForm(last.expr, KwSet, 3) /\ Nearest(last.pre, last.env, last.expr.items[2]) # 0) =>
        /\ last.err = ""
        /\ last.post = Bound(last.pre, Nearest(last.pre, last.env, last.expr.items[2]),
                        last.expr.items[2], last.expr.items[3])

\* C3: (define name value) inserts or overwrites name in the current frame
\* only: every other frame, outer frames that bind name included, is as it
\* was before.
C3_DefineWritesCurrentFrameOnly ==
    (last.called /\ IsForm(last.expr, KwDefine, 3)) =>
        /\ last.err = ""
        /\ last.val = None
        /\ last.post = Bound(last.pre, last.env, last.expr.items[2], last.expr.items[3])
        /\ \A i \in 1..Len(last.pre) : i # last.env => last.post[i] = last.pre[i]

\* a define in an inner frame whose outer frame binds the name to another value
C3_Witness ==
    /\ last.called
    /\ IsForm(last.expr, KwDefine, 3)
    /\ last.expr.items[2] \notin DOMAIN last.pre[last.env].vars
    /\ last.pre[last.env].outer # 0
    /\ Nearest(last.pre, last.env, last.expr.items[2]) # 0
    /\ last.post[Nearest(last.pre, last.env, last.expr.items[2])].vars[last.expr.items[2]] = IntV(0)
    /\ last.post[last.env].vars[last.expr.items[2]] = IntV(1)

-----------------------------------------------------------------------------
(* What procedure calls, if and failing evaluations are expected to do      *)

\* ((lambda name body) a1 ... an) with a Symbol for the parameter expression
IsSymbolParamCall(expr) ==
    /\ expr.t = "list" /\ expr.items # <<>>
    /\ IsForm(expr.items[1], KwLambda, 3)
    /\ expr.items[1].items[2].t = "sym"

ParamName(expr) == expr.items[1].items[2]
Arguments(expr) == Tail(expr.items)

\* the frame the call of the last evaluation created
CallFrame == last.post[Len(last.pre) + 1]

MadeOneFrame == Len(last.post) = Len(last.pre) + 1

CharBindings(chars, args) ==
    LET n == Min(Len(chars), Len(args)) IN
    [k \in {Sym(chars[i]) : i \in 1..n} |-> args[Max({i \in 1..n : Sym(chars[i]) = k})]]

SameOutcome(expr, h) ==
    LET r == eval_expr(expr, last.env, h) IN
    last.val = r.val /\ last.err = r.err /\ last.post = r.heap

\* zero, as a number of either kind or as False
IsZero(v) ==
    v \in {IntV(0), FloatV(FALSE, 0, <<>>), FloatV(TRUE, 0, <<>>), BoolV(FALSE)}

\* C5 as stated: the alternate branch is evaluated only when the predicate's
\* value is zero; for every other value, the empty list included, the
\* consequent is; the other branch is not evaluated.
C5_OnlyZeroIsFalse ==
    (last.called /\ IsForm(last.expr, KwIf, 4)) =>
        LET p == eval_expr(last.expr.items[2], last.env, last.pre) IN
        p.err = "" =>
            SameOutcome(IF IsZero(p.val) THEN last.expr.items[4] ELSE last.expr.items[3], p.heap)

\* the values Python treats as false
IsFalsy(v) == IsZero(v) \/ v \in {None, ListV(<<>>), SymV(<<>>)}

\* C5 amended: the alternate branch is evaluated only when the predicate's
\* value is false for Python: zero, False, None, the empty list or the empty
\* string; for every other value the consequent is; the other branch is not
\* evaluated.
C5_FalsyValuesChooseAlternate ==
    (last.called /\ IsForm(last.expr, KwIf, 4)) =>
        LET p == eval_expr(last.expr.items[2], last.env, last.pre) IN
        p.err = "" =>
            SameOutcome(IF IsFalsy(p.val) THEN last.expr.items[4] ELSE last.expr.items[3], p.heap)

\* the predicate was the empty list and the alternate branch gave the value,
\* the unbound consequent not having been evaluated
C5_Witness ==
    /\ last.called
    /\ last.expr = IfForm(QuoteForm(ListV(<<>>)), U, IntV(2))
    /\ last.err = ""
    /\ last.val = IntV(2)

\* C6: a call of a procedure creates a frame whose outer frame is the frame
\* the lambda form was evaluated in, and a free variable of the body resolves
\* to the binding that frame's chain holds at the time of the call, never to
\* one of the caller's frame.
C6_FreeVariableResolvesInDefiningEnv ==
    (/\ last.called
     /\ last.expr = Form(<<F, IntV(0)>>)
     /\ Nearest(last.pre, last.env, F) # 0
     /\ last.pre[Nearest(last.pre, last.env, F)].vars[F].t = "proc") =>
        LET c == last.pre[Nearest(last.pre, last.env, F)].vars[F]
            o == Nearest(last.pre, c.env, X)
        IN /\ MadeOneFrame
           /\ CallFrame = Env(Put(EmptyDict, Y, IntV(0)), c.env)
           /\ IF o = 0 THEN last.err = "NameError"
              ELSE last.err = "" /\ last.val = last.pre[o].vars[X]

\* C7 as stated: when an evaluation fails, every frame has the bindings it
\* had before the evaluation started.
C7_FailureLeavesFramesUnchanged ==
    (last.called /\ last.err # "") =>
        \A i \in 1..Len(last.pre) : last.post[i] = last.pre[i]

\* the (define x 1) of the program is reached and completes before the
\* failure: it follows begin, or a procedure name that the frame resolves
DefineCompletes(expr) ==
    /\ expr \in FailsAfterDefine
    /\ Head(expr.items) = KwBegin \/ find(last.pre, last.env, Head(expr.items)) # 0

\* C7 amended: a failing evaluation stops at the sub-expression that fails
\* and is not rolled back: the frames keep what the define and set!
\* sub-expressions completed before the failure did, and are as before only
\* when none had completed.
C7_FailureKeepsCompletedDefines ==
    (last.called /\ last.expr \in FailingPrograms) =>
        /\ last.err # ""
        /\ last.post = IF DefineCompletes(last.expr) THEN Bound(last.pre, last.env, X, IntV(1))
                       ELSE last.pre

\* the evaluation failed after (define x 1): x is bound, y is not
C7_Witness ==
    /\ last.called
    /\ DefineCompletes(last.expr)
    /\ last.err = "NameError"
    /\ X \notin DOMAIN last.pre[last.env].vars
    /\ last.post[last.env].vars[X] = IntV(1)
    /\ Y \notin DOMAIN last.post[last.env].vars

=============================================================================
